---- MODULE Spec2Model ----
(***************************************************************************)
(* quiksearch: a character-indexed prefix tree of learned terms            *)
(* (src/src/lib.rs) with its three query modes: Strict, Prefix(depth) and  *)
(* Fuzzy(fuzz, priority).                                                  *)
(*                                                                         *)
(* A node of the tree is identified by its path, the sequence of letters   *)
(* on the edges from the root, so the whole WordListNode tree is one       *)
(* function  path |-> terms set ; the children of a node are the paths one *)
(* letter longer.  A term is the learned String itself (Rc<String> hashes  *)
(* and compares by content).  Characters are one-character strings.        *)
(***************************************************************************)
EXTENDS Integers, Sequences, FiniteSets, Bags, TLC

\* ---------------------------------------------------------------- bounds
MaxLen == 3       \* longest learned text
MaxTerms == 2     \* learn calls with distinct texts
MaxQueryLen == 3  \* longest query string
MaxDepth == 2     \* largest Prefix depth
MaxFuzz == 2      \* largest Fuzzy budget

\* ------------------------------------------------------------ characters
\* Learned texts are written with a lowercase letter, an uppercase letter
\* and a delimiter; queries also with the lowercase of the second letter.
TermChars == {"a", "B", "-"}

Chars == TermChars \cup {"b"}

is_alphanumeric(c) == c # "-"

to_lowercase(c) == IF c = "B" THEN "b" ELSE c

Letter == {to_lowercase(c) : c \in {x \in Chars : is_alphanumeric(x)}}

Strings(cs, n) == UNION {[1..k -> cs] : k \in 0..n}

\* usize::MAX; the largest integer TLC represents stands for 2^64 - 1.
USIZE_MAX == 2147483647

\* a - b in usize arithmetic without overflow checks (release profile)
wrapping_sub(a, b) == IF a >= b THEN a - b ELSE USIZE_MAX - (b - a) + 1

\* Option<T>: None, or Some(x) as a one-element sequence
None == <<>>

Some(x) == <<x>>

\* ---------------------------------------------------------- normalizing
\* s.to_lowercase().chars().filter(|c| c.is_alphanumeric())
RECURSIVE lower_alnum(_)
lower_alnum(s) ==
    IF s = <<>> THEN <<>>
    ELSE LET c == to_lowercase(Head(s))
         IN  (IF is_alphanumeric(c) THEN <<c>> ELSE <<>>) \o lower_alnum(Tail(s))

\* term_repr.chars().filter(|c| c.is_alphanumeric()): case is kept
no_spaces(s) == SelectSeq(s, is_alphanumeric)

\* str::split(|chr| !chr.is_alphanumeric()): one piece per delimiter plus
\* one, so leading, trailing and adjacent delimiters give empty pieces.
RECURSIVE split(_)
split(s) ==
    IF s = <<>> THEN << <<>> >>
    ELSE LET rest == split(Tail(s))
         IN  IF is_alphanumeric(Head(s))
             THEN << <<Head(s)>> \o Head(rest) >> \o Tail(rest)
             ELSE << <<>> >> \o rest

\* ------------------------------------------------------------- the tree
Root == <<>>

\* WordListNode::new(): no terms, no children
new == [p \in {Root} |-> {}]

Prefixes(p) == {SubSeq(p, 1, k) : k \in 0..Len(p)}

\* the keys of node n's children map
children(t, n) == {c \in Letter : Append(n, c) \in DOMAIN t}

\* learn_word: walk from the root along the lowercased alphanumeric
\* characters of the word, creating the missing nodes; the result is the
\* tree and the final node.
learn_word(t, word) ==
    LET path == lower_alnum(word)
    IN  [tree |-> [p \in DOMAIN t \cup Prefixes(path) |->
                      IF p \in DOMAIN t THEN t[p] ELSE {}],
         node |-> path]

\* .terms.insert(term) on the node learn_word returned
insert_term(lw, term) == [lw.tree EXCEPT ![lw.node] = @ \cup {term}]

RECURSIVE learn_words(_, _, _)
learn_words(t, words, term) ==
    IF words = <<>> THEN t
    ELSE learn_words(insert_term(learn_word(t, Head(words)), term), Tail(words), term)

\* learn_term: every piece of the split text, then the text without its
\* delimiters
learn_term(t, term_repr, term) ==
    insert_term(learn_word(learn_words(t, split(term_repr), term), no_spaces(term_repr)), term)

\* WordDict::learn: the term is its own representation
learn(t, term) == learn_term(t, term, term)

\* ------------------------------------------------------------ searching
\* SearchKind; n is the depth of Prefix or the fuzz of Fuzzy
Strict == [tag |-> "Strict", n |-> 0, pri |-> "-"]

Prefix(depth) == [tag |-> "Prefix", n |-> depth, pri |-> "-"]

Fuzzy(fuzz, pri) == [tag |-> "Fuzzy", n |-> fuzz, pri |-> pri]

FuzzPriority == {"WordBoundary", "TypoCorrection"}

SearchKind ==
    {Strict} \cup {Prefix(d) : d \in 0..MaxDepth}
             \cup {Fuzzy(f, p) : f \in 0..MaxFuzz, p \in FuzzPriority}

\* collect_terms: the terms of this node and of the nodes below it down to
\* the given depth (None: all of them).  The Vec is kept as a bag: a term
\* is in it once for every node it was collected from; the order, which is
\* the maps' iteration order, is dropped.
RECURSIVE collect_terms(_, _, _), collect_children(_, _, _, _)
collect_children(t, n, cs, depth) ==
    IF cs = {} THEN EmptyBag
    ELSE LET c == CHOOSE x \in cs : TRUE
         IN  collect_terms(t, Append(n, c), depth) (+) collect_children(t, n, cs \ {c}, depth)

collect_terms(t, n, depth) ==
    LET terms == SetToBag(t[n])
    IN  IF depth # None
        THEN IF depth[1] > 0
             THEN terms (+) collect_children(t, n, children(t, n), Some(depth[1] - 1))
             ELSE terms
        ELSE terms (+) collect_children(t, n, children(t, n), None)

\* hope_for_success: the nodes the greedy search may return, {} for None.
\* The loop returns at the first child, in the map's iteration order, that
\* either has the character on its edge or has a hit below it within
\* fuzz - 1; HashMap fixes no order, so any such child may be the first.
RECURSIVE hope_for_success(_, _, _, _)
hope_for_success(t, n, chara, fuzz) ==
    IF fuzz > 0
    THEN UNION {IF c = chara THEN {Append(n, c)}
                ELSE hope_for_success(t, Append(n, c), chara, fuzz - 1) :
                c \in children(t, n)}
    ELSE {}

\* One traversal's cursor: now_node, restrict_to, whether the search gave
\* up (the early return of a non-fuzzy search), and the steps taken so far.
Cursor0 == [now_node |-> Root, restrict_to |-> {}, gave_up |-> FALSE, trace |-> <<>>]

Moved(w, i, c, to, restrict, event) ==
    [now_node |-> to, restrict_to |-> restrict, gave_up |-> event = "give_up",
     trace |-> Append(w.trace, [i |-> i, c |-> c, from |-> w.now_node, to |-> to,
                                restrict_to |-> restrict, event |-> event])]

\* capture without its guard: restrict_to is taken anew at every mismatch
capture_at_every_mismatch(t, w) == BagToSet(collect_terms(t, w.now_node, None))

\* to avoid false positives, restrict to those which would have appeared
\* if we continued to match, but only once
capture(t, w) ==
    IF Cardinality(w.restrict_to) = 0
    THEN w.restrict_to \cup BagToSet(collect_terms(t, w.now_node, None))
    ELSE w.restrict_to

\* word_boundary without the intersection test: any root child with the
\* character is taken
word_boundary_unchecked(t, w, i, c, restrict) ==
    LET found == hope_for_success(t, Root, c, 1)
    IN  IF found = {} THEN {Moved(w, i, c, w.now_node, restrict, "absorb")}
        ELSE {Moved(w, i, c, alt_word, restrict, "word_jump") : alt_word \in found}

\* FuzzPriority::WordBoundary arm: a root child with the character, taken
\* when its terms meet restrict_to
word_boundary(t, w, i, c, restrict) ==
    LET found == hope_for_success(t, Root, c, 1)
    IN  IF found = {} THEN {Moved(w, i, c, w.now_node, restrict, "absorb")}
        ELSE {IF BagToSet(collect_terms(t, alt_word, None)) \cap restrict # {}
              THEN Moved(w, i, c, alt_word, restrict, "word_jump")
              ELSE Moved(w, i, c, w.now_node, restrict, "absorb") : alt_word \in found}

\* FuzzPriority::TypoCorrection arm: a node below now_node within fuzz,
\* else a root child with the character
typo_correction(t, w, i, c, fuzz, restrict) ==
    LET found == hope_for_success(t, w.now_node, c, fuzz)
        last_hope == hope_for_success(t, Root, c, 1)
    IN  IF found # {} THEN {Moved(w, i, c, alt_node, restrict, "typo_jump") : alt_node \in found}
        ELSE IF last_hope # {}
             THEN {Moved(w, i, c, alt_word, restrict, "root_jump") : alt_word \in last_hope}
             ELSE {Moved(w, i, c, w.now_node, restrict, "absorb")}

\* The body of the loop over lower_query for the character c at index i
\* (counted from 0, as enumerate does).
step(t, k, max_i, i, c, w) ==
    IF c \in children(t, w.now_node)
    THEN {Moved(w, i, c, Append(w.now_node, c), w.restrict_to, "match")}
    ELSE IF i # max_i
         THEN IF k.tag = "Fuzzy"
              THEN IF k.pri = "WordBoundary"
                   THEN word_boundary(t, w, i, c, capture(t, w))
                   ELSE typo_correction(t, w, i, c, k.n, capture(t, w))
              ELSE {Moved(w, i, c, w.now_node, w.restrict_to, "give_up")}
         ELSE {Moved(w, i, c, w.now_node, w.restrict_to, "ignore")}

\* the loop: every cursor the traversal can end with
RECURSIVE walk(_, _, _, _, _, _)
walk(t, k, max_i, lower_query, i, w) ==
    IF i >= Len(lower_query) \/ w.gave_up THEN {w}
    ELSE UNION {walk(t, k, max_i, lower_query, i + 1, w2) :
                w2 \in step(t, k, max_i, i, lower_query[i + 1], w)}

\* depth_limit with Strict one level too deep
depth_limit_strict_one(k) ==
    IF k.tag = "Fuzzy" THEN None
    ELSE IF k.tag = "Prefix" THEN Some(k.n)
    ELSE Some(1)

depth_limit(k) ==
    IF k.tag = "Fuzzy" THEN None
    ELSE IF k.tag = "Prefix" THEN Some(k.n)
    ELSE Some(0)

\* unique left out: the collected Vec as it is
unique_left_out(res) == res

\* Itertools::unique: each element once
unique(res) == SetToBag(BagToSet(res))

\* .filter(|x| if restrict_to.len() > 0 { restrict_to.contains(x) } else { true })
restricted(res, restrict_to) ==
    IF Cardinality(restrict_to) > 0
    THEN [x \in {y \in DOMAIN res : y \in restrict_to} |-> res[x]]
    ELSE res

\* One traversal and what it collected.
Run(t, k, w) ==
    LET res == IF w.gave_up THEN EmptyBag ELSE collect_terms(t, w.now_node, depth_limit(k))
    IN  [kind |-> k, now_node |-> w.now_node, restrict_to |-> w.restrict_to,
         gave_up |-> w.gave_up, trace |-> w.trace, res |-> res,
         rslt |-> restricted(unique(res), w.restrict_to)]

\* no retry at all
retries_never(k) == FALSE

\* whether an empty result is searched for again with WordBoundary
retries(k) == k.tag = "Fuzzy" /\ k.pri = "TypoCorrection"

\* find_terms without the computation of max_i: every way the call can
\* end, as the Vec returned and the traversals made.
RECURSIVE search(_, _, _, _)
search(t, q, k, max_i) ==
    UNION {LET r == Run(t, k, w)
           IN  IF r.rslt = EmptyBag /\ ~r.gave_up /\ retries(k)
               THEN {[rslt |-> o.rslt, runs |-> <<r>> \o o.runs] :
                     o \in search(t, q, Fuzzy(k.n, "WordBoundary"), max_i)}
               ELSE {[rslt |-> r.rslt, runs |-> <<r>>]} :
           w \in walk(t, k, max_i, lower_alnum(q), 0, Cursor0)}

\* find_terms.  max_i = query.len() - 1 is computed on the query as given;
\* for the empty string the subtraction overflows: a panic when the build
\* checks overflow (debug), usize::MAX when it does not (release).
find_terms(t, q, k, overflow_checks) ==
    IF Len(q) = 0 /\ overflow_checks
    THEN {[status |-> "panicked", rslt |-> EmptyBag, runs |-> <<>>]}
    ELSE {[status |-> "returned", rslt |-> o.rslt, runs |-> o.runs] :
          o \in search(t, q, k, wrapping_sub(Len(q), 1))}

\* ---------------------------------------------------------------- state
VARIABLES
    tree,     \* the dictionary: the root WordListNode and all below it
    learned,  \* the texts passed to learn so far
    pc,       \* "idle", or how the last find_terms call ended
    query,    \* the last find_terms call's query
    kind,     \* the last find_terms call's SearchKind
    rslt,     \* the Vec it returned, as a bag
    runs      \* its traversals: one, or two when it retried

vars == <<tree, learned, pc, query, kind, rslt, runs>>

Init ==
    /\ tree = new
    /\ learned = {}
    /\ pc = "idle"
    /\ query = <<>>
    /\ kind = Strict
    /\ rslt = EmptyBag
    /\ runs = <<>>

\* dict.learn(term)
Learn ==
    /\ pc = "idle"
    /\ \E term \in Strings(TermChars, MaxLen) :
          /\ term \in learned \/ Cardinality(learned) < MaxTerms
          /\ tree' = learn(tree, term)
          /\ learned' = learned \cup {term}
    /\ UNCHANGED <<pc, query, kind, rslt, runs>>

\* dict.find_terms(query, kind), from the call to its return or panic
FindTerms ==
    /\ pc = "idle"
    /\ \E q \in Strings(Chars, MaxQueryLen), k \in SearchKind, overflow_checks \in BOOLEAN :
          \E o \in find_terms(tree, q, k, overflow_checks) :
             /\ pc' = o.status
             /\ query' = q
             /\ kind' = k
             /\ rslt' = o.rslt
             /\ runs' = o.runs
    /\ UNCHANGED <<tree, learned>>

\* the caller is done with the returned Vec; a panic ends the program
Return ==
    /\ pc = "returned"
    /\ pc' = "idle"
    /\ query' = <<>>
    /\ kind' = Strict
    /\ rslt' = EmptyBag
    /\ runs' = <<>>
    /\ UNCHANGED <<tree, learned>>

Next == Learn \/ FindTerms \/ Return

Spec == Init /\ [][Next]_vars

\* ======================================================================
\* The properties
\* ======================================================================
lower_query == lower_alnum(query)

\* the terms of a returned Vec, as a set
TermsOf(vec) == BagToSet(vec)

\* every term below node n, at any depth
Reachable(n) == BagToSet(collect_terms(tree, n, None))

\* what find_terms can return for q and k on the present dictionary
Returns(q, k) ==
    {o \in find_terms(tree, q, k, TRUE) \cup find_terms(tree, q, k, FALSE) :
        o.status = "returned"}

\* the words of a text: its maximal runs of alphanumeric characters
Words(text) ==
    {SubSeq(text, i, j) : <<i, j>> \in
        {ij \in (1..Len(text)) \X (1..Len(text)) :
            /\ ij[1] <= ij[2]
            /\ \A x \in ij[1]..ij[2] : is_alphanumeric(text[x])
            /\ ij[1] = 1 \/ ~is_alphanumeric(text[ij[1] - 1])
            /\ ij[2] = Len(text) \/ ~is_alphanumeric(text[ij[2] + 1])}}

\* the paths a text is indexed under: its normalized words and its
\* normalized compact form
IndexedForms(text) == {lower_alnum(w) : w \in Words(text)} \cup {lower_alnum(text)}

\* ---------------------------------------------------------------- C1
\* C1: for every learned term T, find_terms(normalize(T), Strict) returns
\* a collection that contains T, also when normalize(T) is one character
\* or empty.
C1_StrictFindsEveryLearnedTerm ==
    \A T \in learned :
        (pc # "idle" /\ kind = Strict /\ query = lower_alnum(T))
            => (pc = "returned" /\ BagIn(T, rslt))

\* ---------------------------------------------------------------- C2
\* C2: a Strict or Prefix search whose normalized query is not the path of
\* a node returns nothing, and a Strict search returns only terms that have
\* an indexed form equal to the normalized query.
C2_NeverReturnsWhatWasNotSaved ==
    (pc = "returned" /\ kind.tag \in {"Strict", "Prefix"}) =>
        /\ lower_query \notin DOMAIN tree => rslt = EmptyBag
        /\ kind = Strict => \A T \in TermsOf(rslt) : lower_query \in IndexedForms(T)

\* ---------------------------------------------------------------- C3
\* C3: two queries with the same normalized form return the same set of
\* terms, whatever the kind.
C3_ResultDependsOnNormalizedQueryOnly ==
    pc = "returned" =>
        \A q2 \in Strings(Chars, MaxQueryLen) :
            lower_alnum(q2) = lower_query =>
                \A o \in Returns(q2, kind) : TermsOf(o.rslt) = TermsOf(rslt)

\* ---------------------------------------------------------------- C4
\* C4: a query whose normalized form is empty neither overflows nor
\* crashes, and returns the empty collection.
C4_EmptyQueryReturnsEmpty ==
    (pc # "idle" /\ lower_query = <<>>) => (pc = "returned" /\ rslt = EmptyBag)

\* ---------------------------------------------------------------- C5
\* C5: no returned Vec holds a term twice, and learning a learned term
\* again changes neither the dictionary nor what the search returns.
C5_IdempotentAndDuplicateFree ==
    pc = "returned" =>
        /\ \A T \in TermsOf(rslt) : CopiesIn(T, rslt) = 1
        /\ \A T \in learned :
              /\ learn(tree, T) = tree
              /\ rslt \in {o.rslt : o \in find_terms(learn(tree, T), query, kind, FALSE)}

\* a Prefix search below the root returned a term that it collected from
\* several nodes
C5_Witness ==
    /\ pc = "returned"
    /\ kind.tag = "Prefix"
    /\ runs[1].now_node # Root
    /\ \E T \in TermsOf(rslt) : CopiesIn(T, runs[1].res) >= 2 /\ CopiesIn(T, rslt) = 1

\* ---------------------------------------------------------------- C6
\* C6: Strict returns the same set as Prefix(0), and Prefix(d1) returns a
\* subset of Prefix(d2) whenever d1 <= d2.
C6_StrictPrefixChain ==
    pc = "returned" =>
        /\ (kind = Strict \/ kind = Prefix(0)) =>
              \A o \in Returns(query, Strict) \cup Returns(query, Prefix(0)) :
                  TermsOf(o.rslt) = TermsOf(rslt)
        /\ kind.tag = "Prefix" =>
              \A d2 \in kind.n..(MaxDepth + 1) :
                  \A o \in Returns(query, Prefix(d2)) : TermsOf(rslt) \subseteq TermsOf(o.rslt)

\* a Prefix search, not at the root, that returned more than Strict does
C6_Witness ==
    /\ pc = "returned"
    /\ kind.tag = "Prefix"
    /\ kind.n >= 1
    /\ lower_query # <<>>
    /\ \E o \in Returns(query, Strict) :
          TermsOf(o.rslt) # {} /\ TermsOf(o.rslt) # TermsOf(rslt)

\* ---------------------------------------------------------------- C7
\* C7: a term is in the terms set of the node with path p exactly when p
\* is one of the indexed forms of a text it was learned with; so a text
\* with an alphanumeric character never puts its term into the root.
C7_TermsSitAtTheirIndexedForms ==
    \A p \in DOMAIN tree :
        /\ tree[p] \subseteq learned
        /\ \A T \in learned : T \in tree[p] <=> p \in IndexedForms(T)

\* ---------------------------------------------------------------- C8
\* the steps of a traversal at which a character found no child at an
\* index before that of the query's last character (the query as given,
\* which is at least as long as its normalized form)
MidMismatches(r) ==
    {j \in 1..Len(r.trace) :
        r.trace[j].event # "match" /\ r.trace[j].i < Len(query) - 1}

FirstMidMismatch(r) == CHOOSE j \in MidMismatches(r) : \A j2 \in MidMismatches(r) : j <= j2

Jumps == {"word_jump", "typo_jump", "root_jump"}

Consistent(n, restrict) == Reachable(n) \cap restrict # {}

\* the root child a word-boundary jump for character c would go to
RootChild(c) == {n \in {<<c>>} : n \in DOMAIN tree}

C10_FallbackRule ==
    (pc = "returned" /\ kind.tag = "Fuzzy") =>
        /\ Len(runs) \in {1, 2}
        /\ runs[1].kind = kind
        /\ kind.pri = "WordBoundary" => Len(runs) = 1 /\ rslt = runs[1].rslt
        /\ kind.pri = "TypoCorrection" =>
              IF runs[1].rslt # EmptyBag
              THEN Len(runs) = 1 /\ rslt = runs[1].rslt
              ELSE /\ Len(runs) = 2
                   /\ runs[2].kind = Fuzzy(kind.n, "WordBoundary")
                   /\ rslt \in {o.rslt : o \in Returns(query, Fuzzy(kind.n, "WordBoundary"))}

\* a TypoCorrection search whose own result was empty and whose retry
\* found a term
C10_Witness ==
    /\ pc = "returned"
    /\ kind.tag = "Fuzzy"
    /\ kind.pri = "TypoCorrection"
    /\ Len(runs) = 2
    /\ runs[1].rslt = EmptyBag
    /\ rslt # EmptyBag

====
